---- MODULE Spec2Model ----
(***************************************************************************)
(* A model of pacparser-rs (src/src/lib.rs): the PAC script host           *)
(* (PacParser / PacFile), its host functions, the wildcard cache of        *)
(* shExpMatch and the decoder of the proxy string a script returns.        *)
(*                                                                         *)
(* Text is a sequence of one-character strings, so that trimming,          *)
(* prefix stripping, searching and splitting are computed as lib.rs        *)
(* computes them.                                                          *)
(***************************************************************************)
EXTENDS Integers, Sequences, FiniteSets, TLC

VARIABLES
    ret,        \* decoder: the string the driver returned (lib.rs:264)
    result,     \* decoder: what find_proxy handed back, or NoResult before the call
    call,       \* host function: the call a script makes, [fn, args]
    callResult, \* host function: what the call gave the script, or NoResult
    cache,      \* shExpMatch: RegexCache.cache, pattern text -> compiled Regex
    path,       \* shExpMatch: the arm of RegexCache::matches the last call took
    ncalls,     \* shExpMatch: the calls made so far
    engines,    \* script host: every PacParser, with its PacFile if one is out
    crashed,    \* script host: a panic unwound out of the library
    last        \* script host: the last operation and what it returned

decodeVars == <<ret, result>>
callVars == <<call, callResult>>
cacheVars == <<cache, path, ncalls>>
hostVars == <<engines, crashed, last>>
vars == <<ret, result, call, callResult, cache, path, ncalls, engines, crashed, last>>

(***************************************************************************)
(* Bounds of the model.                                                    *)
(***************************************************************************)
MaxSegs == 2        \* ';'-separated segments in a returned proxy string
MaxCalls == 3       \* shExpMatch calls on one engine
MaxRuns == 2        \* driver invocations on one engine

(***************************************************************************)
(* Text helpers: the str methods find_proxy uses.                          *)
(***************************************************************************)
None == [some |-> FALSE]
Some(v) == [some |-> TRUE, val |-> v]

IsWhitespace(c) == c = " "

RECURSIVE TrimStart(_)
TrimStart(s) ==
    IF s # <<>> /\ IsWhitespace(Head(s)) THEN TrimStart(Tail(s)) ELSE s

RECURSIVE TrimEnd(_)
TrimEnd(s) ==
    IF s # <<>> /\ IsWhitespace(s[Len(s)])
    THEN TrimEnd(SubSeq(s, 1, Len(s) - 1))
    ELSE s

\* str::trim
Trim(s) == TrimEnd(TrimStart(s))

StartsWith(s, p) == Len(s) >= Len(p) /\ SubSeq(s, 1, Len(p)) = p

\* str::strip_prefix: the text after the prefix, or None
StripPrefix(s, p) ==
    IF StartsWith(s, p) THEN Some(SubSeq(s, Len(p) + 1, Len(s))) ELSE None

\* str::find(char): the 0-based index of the first occurrence, or None
Find(s, c) ==
    IF \E i \in 1..Len(s) : s[i] = c
    THEN Some((CHOOSE i \in 1..Len(s) :
                  s[i] = c /\ \A j \in 1..(i - 1) : s[j] # c) - 1)
    ELSE None

\* str::split_at(mid): the first mid characters, and the rest
SplitAt(s, mid) == <<SubSeq(s, 1, mid), SubSeq(s, mid + 1, Len(s))>>

\* str::split(char): the pieces between separators, empty pieces included
RECURSIVE Split(_, _)
Split(s, c) ==
    LET at == Find(s, c) IN
    IF at.some
    THEN <<SubSeq(s, 1, at.val)>> \o Split(SubSeq(s, at.val + 2, Len(s)), c)
    ELSE <<s>>

(***************************************************************************)
(* The tokens of the decoder.                                              *)
(***************************************************************************)
DIRECT == <<"D", "I", "R", "E", "C", "T">>
PROXY  == <<"P", "R", "O", "X", "Y">>
SOCKS  == <<"S", "O", "C", "K", "S">>
HTTP   == <<"H", "T", "T", "P">>
HTTPS  == <<"H", "T", "T", "P", "S">>
SOCKS4 == <<"S", "O", "C", "K", "S", "4">>
SOCKS5 == <<"S", "O", "C", "K", "S", "5">>

\* the scan order of find_proxy
types == <<PROXY, SOCKS, HTTP, HTTPS, SOCKS4, SOCKS5>>

Ok(v) == [tag |-> "Ok", val |-> v]
Err(kind, msg) == [tag |-> "Err", err |-> kind, msg |-> msg]
Panic(msg) == [tag |-> "Panic", msg |-> msg]

\* nothing returned yet, no call made yet, no operation done yet
NoResult == [tag |-> "None"]
NoCall == [fn |-> "none", args |-> <<>>]
NoOp == [op |-> "none"]

\* impl FromStr for ProxyType
from_str(s) ==
    CASE s = PROXY  -> Ok("Proxy")
      [] s = SOCKS  -> Ok("Socks")
      [] s = HTTP   -> Ok("Http")
      [] s = HTTPS  -> Ok("Https")
      [] s = SOCKS4 -> Ok("Socks4")
      [] s = SOCKS5 -> Ok("Socks5")
      [] OTHER      -> Err("MalformedProxyEntry", "Unknown type")

Direct == [kind |-> "Direct"]
Proxied(ty, host, port) ==
    [kind |-> "Proxied", ty |-> ty, host |-> host, port |-> port]

\* a slip: the text is cut at its last colon, not its first
DecodeTypedAtLastColon(ty, rest) ==
    LET proxy == Trim(rest)
        last_colon == IF \E i \in 1..Len(proxy) : proxy[i] = ":"
                      THEN Some((CHOOSE i \in 1..Len(proxy) :
                                    proxy[i] = ":"
                                    /\ \A j \in (i + 1)..Len(proxy) : proxy[j] # ":") - 1)
                      ELSE None
    IN  IF ~last_colon.some
        THEN Err("MalformedProxyEntry", "No colon in entry")
        ELSE Ok(Proxied(from_str(ty).val,
                        SplitAt(proxy, last_colon.val)[1],
                        Tail(SplitAt(proxy, last_colon.val)[2])))

\* the body of `if let Some(proxy) = part.strip_prefix(ty)`
DecodeTyped(ty, rest) ==
    LET proxy == Trim(rest)
        colon == Find(proxy, ":")
    IN  IF ~colon.some
        THEN Err("MalformedProxyEntry", "No colon in entry")
        ELSE LET hp == SplitAt(Trim(proxy), colon.val)
                 parsed == from_str(ty)
             IN  IF parsed.tag # "Ok"
                 THEN parsed
                 ELSE Ok(Proxied(parsed.val, hp[1], Tail(hp[2])))

\* `for ty in types`: the first token, in scan order, that prefixes the part
RECURSIVE ScanTypes(_, _)
ScanTypes(part, i) ==
    IF i > Len(types)
    THEN Err("MalformedProxyEntry", "No type matched")
    ELSE LET stripped == StripPrefix(part, types[i]) IN
         IF stripped.some
         THEN DecodeTyped(types[i], stripped.val)
         ELSE ScanTypes(part, i + 1)

\* the closure given to map: one segment of the returned string
DecodePart(seg) ==
    LET part == Trim(seg)
        x == StripPrefix(part, DIRECT)
    IN  IF x.some
        THEN IF Trim(x.val) = <<>>
             THEN Ok(Direct)
             ELSE Panic("DIRECT with host is not supported")
        ELSE ScanTypes(part, 1)

\* collect::<Result<Vec<_>>>: pulls the parts in order and stops at the first
\* Err; a panic of the closure unwinds out of find_proxy
RECURSIVE Collect(_, _, _)
Collect(parts, i, acc) ==
    IF i > Len(parts)
    THEN Ok(acc)
    ELSE LET r == DecodePart(parts[i]) IN
         IF r.tag = "Ok"
         THEN Collect(parts, i + 1, Append(acc, r.val))
         ELSE r

\* lines 266-292 of find_proxy: the decoding of the returned string
Decode(s) == Collect(Split(s, ";"), 1, <<>>)


(***************************************************************************)
(* IPv4 addresses: four octets (std::net::Ipv4Addr), their text form and   *)
(* the network arithmetic of ipnet::Ipv4Net, octet by octet.               *)
(***************************************************************************)
Digits == <<"0", "1", "2", "3", "4", "5", "6", "7", "8", "9">>
IsDigit(c) == \E i \in 1..Len(Digits) : Digits[i] = c
DigitVal(c) == (CHOOSE i \in 1..Len(Digits) : Digits[i] = c) - 1

\* u8 Display: decimal, no leading zeros
FormatU8(n) ==
    IF n < 10 THEN <<Digits[n + 1]>>
    ELSE IF n < 100 THEN <<Digits[(n \div 10) + 1], Digits[(n % 10) + 1]>>
    ELSE <<Digits[(n \div 100) + 1], Digits[((n \div 10) % 10) + 1],
           Digits[(n % 10) + 1]>>

\* Ipv4Addr::to_string
FormatIpv4(o) ==
    FormatU8(o[1]) \o <<".">> \o FormatU8(o[2]) \o <<".">>
        \o FormatU8(o[3]) \o <<".">> \o FormatU8(o[4])

RECURSIVE DecimalValue(_)
DecimalValue(s) ==
    IF s = <<>> THEN 0
    ELSE 10 * DecimalValue(SubSeq(s, 1, Len(s) - 1)) + DigitVal(s[Len(s)])

\* one octet of an address text: one to three digits, no leading zero, at
\* most 255
ParseU8(s) ==
    IF /\ Len(s) \in 1..3
       /\ \A i \in 1..Len(s) : IsDigit(s[i])
       /\ (Len(s) > 1 => s[1] # "0")
       /\ DecimalValue(s) <= 255
    THEN Some(DecimalValue(s))
    ELSE None

\* str::parse::<Ipv4Addr>: four octets separated by dots, nothing else
ParseIpv4(s) ==
    LET parts == Split(s, ".") IN
    IF Len(parts) = 4 /\ \A i \in 1..4 : ParseU8(parts[i]).some
    THEN Some([i \in 1..4 |-> ParseU8(parts[i]).val])
    ELSE None

\* two texts that are no address
BadOctetText == <<"2", "5", "6", ".", "0", ".", "0", ".", "0">>
ShortText == <<"1", ".", "2", ".", "3">>

\* u8::count_ones
RECURSIVE CountOnes8(_)
CountOnes8(b) == IF b = 0 THEN 0 ELSE (b % 2) + CountOnes8(b \div 2)

\* u32::from_ne_bytes(mask.octets()).count_ones(): the set bits of the four
\* bytes, whatever the byte order
CountOnes(o) == CountOnes8(o[1]) + CountOnes8(o[2]) + CountOnes8(o[3]) + CountOnes8(o[4])

RECURSIVE Pow2(_)
Pow2(n) == IF n = 0 THEN 1 ELSE 2 * Pow2(n - 1)

\* the number of bits of octet k (1..4) a prefix of p bits covers
PrefixBitsIn(p, k) ==
    IF p >= 8 * k THEN 8
    ELSE IF p <= 8 * (k - 1) THEN 0
    ELSE p - 8 * (k - 1)

\* Ipv4Net::netmask: u32::MAX << (32 - prefix_len), as octets
Netmask(p) == [k \in 1..4 |-> 256 - Pow2(8 - PrefixBitsIn(p, k))]
\* Ipv4Net::hostmask: u32::MAX >> prefix_len, as octets
Hostmask(p) == [k \in 1..4 |-> Pow2(8 - PrefixBitsIn(p, k)) - 1]

RECURSIVE BitAnd8(_, _)
BitAnd8(a, b) ==
    IF a = 0 \/ b = 0 THEN 0
    ELSE ((a % 2) * (b % 2)) + 2 * BitAnd8(a \div 2, b \div 2)

RECURSIVE BitOr8(_, _)
BitOr8(a, b) ==
    IF a = 0 THEN b
    ELSE IF b = 0 THEN a
    ELSE (IF a % 2 = 1 \/ b % 2 = 1 THEN 1 ELSE 0) + 2 * BitOr8(a \div 2, b \div 2)

\* Ipv4Net::network and Ipv4Net::broadcast
Network(net) == [k \in 1..4 |-> BitAnd8(net.addr[k], Netmask(net.prefix_len)[k])]
Broadcast(net) == [k \in 1..4 |-> BitOr8(net.addr[k], Hostmask(net.prefix_len)[k])]

\* Ord for Ipv4Addr: the octets, most significant first
AddrLe(a, b) ==
    \/ a = b
    \/ \E k \in 1..4 : a[k] < b[k] /\ \A j \in 1..(k - 1) : a[j] = b[j]

\* Ipv4Net::new: fails when the prefix is longer than 32 bits
Ipv4NetNew(addr, prefix_len) ==
    IF prefix_len > 32 THEN None
    ELSE Some([addr |-> addr, prefix_len |-> prefix_len])

\* Ipv4Net::contains(&Ipv4Addr)
Contains(net, ip) == AddrLe(Network(net), ip) /\ AddrLe(ip, Broadcast(net))

(***************************************************************************)
(* The resolver, as the host sees it: what dns_lookup::lookup_host gives   *)
(* for each name the model uses.                                           *)
(***************************************************************************)
V4(o) == [v |-> 4, octets |-> o]
V6Loopback == [v |-> 6, octets |-> <<>>]

Localhost == <<"l", "o", "c", "a", "l", "h", "o", "s", "t">>
DualHost  == <<"d", "u", "a", "l">>
V6Host    == <<"v", "6">>
NxHost    == <<"n", "x">>

lookup_host(name) ==
    CASE ParseIpv4(name).some -> Ok(<<V4(ParseIpv4(name).val)>>)
      [] name = Localhost -> Ok(<<V4(<<127, 0, 0, 1>>)>>)
      [] name = DualHost  -> Ok(<<V6Loopback, V4(<<10, 1, 2, 3>>), V4(<<10, 9, 9, 9>>)>>)
      [] name = V6Host    -> Ok(<<V6Loopback>>)
      [] OTHER            -> Err("io", "failed to lookup address information")

JsError(msg) == Err("JsError", msg)

\* dns_resolve: the first IPv4 address of the lookup, as text
dns_resolve(args) ==
    IF Len(args) # 1 THEN Panic("expected one argument")
    ELSE LET lookup == lookup_host(args[1]) IN
         IF lookup.tag # "Ok" THEN JsError("dns error")
         ELSE LET ips == lookup.val
                  found == \E i \in 1..Len(ips) : ips[i].v = 4
              IN  IF ~found THEN Panic("not yet implemented: handle ipv6")
                  ELSE LET first == CHOOSE i \in 1..Len(ips) :
                                       ips[i].v = 4 /\ \A j \in 1..(i - 1) : ips[j].v # 4
                       IN  Ok(FormatIpv4(ips[first].octets))

RECURSIVE LeadingOnes8(_, _)
LeadingOnes8(b, w) ==
    IF w = 0 \/ b < Pow2(w - 1) THEN 0
    ELSE 1 + LeadingOnes8(b - Pow2(w - 1), w - 1)

\* a slip: the mask read as a contiguous prefix (its leading ones)
PrefixLenLeadingOnes(mask) ==
    IF mask[1] # 255 THEN LeadingOnes8(mask[1], 8)
    ELSE IF mask[2] # 255 THEN 8 + LeadingOnes8(mask[2], 8)
    ELSE IF mask[3] # 255 THEN 16 + LeadingOnes8(mask[3], 8)
    ELSE 24 + LeadingOnes8(mask[4], 8)

\* the prefix length is_in_inet gives the network
PrefixLen(mask) == CountOnes(mask) % 256

\* is_in_inet
is_in_inet(args) ==
    IF Len(args) # 3 THEN Panic("expected three arguments")
    ELSE LET host == args[1]
             net == ParseIpv4(args[2])
             mask == ParseIpv4(args[3])
         IN  IF ~net.some THEN JsError("invalid ip addr")
             ELSE IF ~mask.some THEN JsError("invalid ip mask")
             ELSE LET network == Ipv4NetNew(net.val, PrefixLen(mask.val)) IN
                  IF ~network.some THEN Panic("prefix should not be a problem")
                  ELSE IF ParseIpv4(host).some
                  THEN Ok(Contains(network.val, ParseIpv4(host).val))
                  ELSE LET resolved == dns_resolve(<<host>>) IN
                       IF resolved.tag # "Ok" THEN resolved
                       ELSE IF ~ParseIpv4(resolved.val).some
                       THEN Panic("dns resolve should return an ip")
                       ELSE Ok(Contains(network.val, ParseIpv4(resolved.val).val))


(***************************************************************************)
(* Patterns: the part of the regex crate shExpMatch needs. A pattern is    *)
(* literals, '.', a postfix '*' and '(' (which, never closed, does not     *)
(* compile); a compiled Regex is its anchors and its items.                *)
(***************************************************************************)
\* format!("^{regex}$")
Anchor(regex) == <<"^">> \o regex \o <<"$">>

Count(s, c) == Cardinality({ i \in 1..Len(s) : s[i] = c })

\* the items of a pattern body: each character with whether a '*' follows
RECURSIVE Items(_)
Items(body) ==
    IF body = <<>> THEN <<>>
    ELSE IF Len(body) >= 2 /\ body[2] = "*"
    THEN <<[c |-> body[1], star |-> TRUE]>> \o Items(SubSeq(body, 3, Len(body)))
    ELSE <<[c |-> body[1], star |-> FALSE]>> \o Items(Tail(body))

\* Regex::new: fails on a group that is never closed
RegexNew(text) ==
    IF Count(text, "(") # Count(text, ")")
    THEN Err("regex", "unclosed group")
    ELSE LET atStart == text # <<>> /\ Head(text) = "^"
             t1 == IF atStart THEN Tail(text) ELSE text
             atEnd == t1 # <<>> /\ t1[Len(t1)] = "$"
             body == IF atEnd THEN SubSeq(t1, 1, Len(t1) - 1) ELSE t1
         IN  Ok([atStart |-> atStart, atEnd |-> atEnd, items |-> Items(body)])

CharMatches(pc, c) == pc = "." \/ pc = c

\* the positions of s at which the items can end, started at pos
RECURSIVE Ends(_, _, _)
Ends(items, s, pos) ==
    IF items = <<>> THEN {pos}
    ELSE LET it == Head(items) IN
         IF it.star
         THEN UNION { Ends(Tail(items), s, q) :
                        q \in { q \in pos..(Len(s) + 1) :
                                  \A r \in pos..(q - 1) : CharMatches(it.c, s[r]) } }
         ELSE IF pos <= Len(s) /\ CharMatches(it.c, s[pos])
              THEN Ends(Tail(items), s, pos + 1)
              ELSE {}

\* Regex::is_match: a match anywhere in s the anchors allow
IsMatch(re, s) ==
    \E from \in 1..(Len(s) + 1) :
        /\ re.atStart => from = 1
        /\ \E to \in Ends(re.items, s, from) : re.atEnd => to = Len(s) + 1

(***************************************************************************)
(* The wildcard cache.                                                     *)
(***************************************************************************)
EmptyCache == << >>

\* HashMap::insert
Insert(map, k, v) == [x \in DOMAIN map \cup {k} |-> IF x = k THEN v ELSE map[x]]

\* a slip: the miss arm tests the anchored pattern but stores the bare one
MatchesStoringBare(c, str, regex) ==
    IF regex \notin DOMAIN c
    THEN LET re == RegexNew(Anchor(regex)) IN
         IF re.tag # "Ok"
         THEN [res |-> JsError("regex error"), cache |-> c, path |-> "miss"]
         ELSE [res |-> Ok(IsMatch(re.val, str)),
               cache |-> Insert(c, regex, RegexNew(regex).val),
               path |-> "miss"]
    ELSE [res |-> Ok(IsMatch(c[regex], str)), cache |-> c, path |-> "hit"]

\* RegexCache::matches: the answer, the cache afterwards, and the arm taken
matches(c, str, regex) ==
    IF regex \notin DOMAIN c
    THEN LET re == RegexNew(Anchor(regex)) IN
         IF re.tag # "Ok"
         THEN [res |-> JsError("regex error"), cache |-> c, path |-> "miss"]
         ELSE [res |-> Ok(IsMatch(re.val, str)),
               cache |-> Insert(c, regex, re.val),
               path |-> "miss"]
    ELSE [res |-> Ok(IsMatch(c[regex], str)), cache |-> c, path |-> "hit"]


(***************************************************************************)
(* The script host. A JavaScript value is tagged with its type; a script   *)
(* is what the driver does when called: at most one host-function call on  *)
(* the host of the URL, and the value returned for each outcome, after the *)
(* pattern of the tests (`if (<call>) return "PROXY 1:80"; return          *)
(* "DIRECT"`).                                                             *)
(***************************************************************************)
Undefined == [t |-> "undefined"]
Str(text) == [t |-> "string", s |-> text]
Num == [t |-> "number"]
Fn(script) == [t |-> "function", script |-> script]

EndsWith(s, p) == Len(s) >= Len(p) /\ SubSeq(s, Len(s) - Len(p) + 1, Len(s)) = p

\* dns_domain_is
dns_domain_is(args) ==
    IF Len(args) # 2 THEN Panic("expected two arguments")
    ELSE Ok(EndsWith(args[1], args[2]))

\* local_host_or_domain_is
local_host_or_domain_is(args) ==
    IF Len(args) # 2 THEN Panic("expected two arguments")
    ELSE Ok(StartsWith(args[2], args[1]))

\* the result of a host function that leaves the cache alone
Plain(res, c) == [res |-> res, cache |-> c, path |-> "none"]

\* the closure registered as shExpMatch
shExpMatch(c, args) ==
    IF Len(args) # 2
    THEN Plain(Panic("takes two arguments"), c)
    ELSE matches(c, args[1], args[2])

\* a call of a host function from the script: its outcome and the cache after
HostCall(fn, args, c) ==
    CASE fn = "dnsDomainIs" -> Plain(dns_domain_is(args), c)
      [] fn = "localHostOrDomainIs" -> Plain(local_host_or_domain_is(args), c)
      [] fn = "isInNet" -> Plain(is_in_inet(args), c)
      [] fn = "dnsResolve" -> Plain(dns_resolve(args), c)
      [] fn = "shExpMatch" -> shExpMatch(c, args)

\* the declared length of each host function (PacParser::new)
Arity(fn) ==
    CASE fn = "dnsDomainIs" -> 2
      [] fn = "localHostOrDomainIs" -> 2
      [] fn = "isInNet" -> 3
      [] fn = "dnsResolve" -> 1
      [] fn = "shExpMatch" -> 2

HostArg == <<"$", "h", "o", "s", "t">>     \* stands for the driver's __host
ProxyRet == PROXY \o <<" ", "1", ":", "8", "0">>
SimpleRet ==
    PROXY \o <<" ">> \o FormatIpv4(<<127, 0, 0, 1>>) \o <<":", "8", "1", "1", "8", ";", " ">>
        \o DIRECT
TrailingRet == DIRECT \o <<" ", "h">>

Const(v) == [compiles |-> TRUE, cond |-> NoCall, then |-> v, else |-> v]
Cond(fn, args) ==
    [compiles |-> TRUE, cond |-> [fn |-> fn, args |-> args],
     then |-> Str(ProxyRet), else |-> Str(DIRECT)]

ScriptIds ==
    { "direct", "simple", "number", "syntax", "trailing", "shexp", "badpattern",
      "arity", "domain", "local", "resolve", "innet", "badnet" }

ScriptOf(id) ==
    CASE id = "direct"     -> Const(Str(DIRECT))
      [] id = "simple"     -> Const(Str(SimpleRet))
      [] id = "number"     -> Const(Num)
      [] id = "syntax"     -> [Const(Undefined) EXCEPT !.compiles = FALSE]
      [] id = "trailing"   -> Const(Str(TrailingRet))
      [] id = "shexp"      -> Cond("shExpMatch", <<HostArg, <<"l", ".", "*">> >>)
      [] id = "badpattern" -> Cond("shExpMatch", <<HostArg, <<"(", "l">> >>)
      [] id = "arity"      -> Cond("dnsDomainIs", <<HostArg>>)
      [] id = "domain"     -> Cond("dnsDomainIs", <<HostArg, <<"h", "o", "s", "t">> >>)
      [] id = "local"      -> Cond("localHostOrDomainIs", <<HostArg, Localhost \o <<".", "x">> >>)
      [] id = "resolve"    -> Cond("dnsResolve", <<HostArg>>)
      [] id = "innet"      -> Cond("isInNet",
                                   <<HostArg, FormatIpv4(<<127, 0, 0, 0>>),
                                     FormatIpv4(<<255, 0, 0, 0>>)>>)
      [] id = "badnet"     -> Cond("isInNet",
                                   <<HostArg, BadOctetText, FormatIpv4(<<255, 0, 0, 0>>)>>)

\* the arguments of the script's call, for the host the driver was given
ArgsFor(script, host) ==
    [i \in 1..Len(script.cond.args) |->
        IF script.cond.args[i] = HostArg THEN host ELSE script.cond.args[i]]

\* what JavaScript takes a host function's result for in `if (...)`
Truthy(fn, v) == IF fn = "dnsResolve" THEN v # <<>> ELSE v

\* the script after its host-function call: an error raised by the host
\* function is thrown out of the driver, a value decides what is returned
Branch(script, hc) ==
    IF hc.res.tag # "Ok"
    THEN hc
    ELSE Plain(Ok(IF Truthy(script.cond.fn, hc.res.val)
                  THEN script.then ELSE script.else),
               hc.cache)

\* pac(__url, __host): the script's logic, then the value FindProxyForURL
\* returns
RunDriver(script, c, host) ==
    IF script.cond = NoCall
    THEN Plain(Ok(script.then), c)
    ELSE Branch(script, HostCall(script.cond.fn, ArgsFor(script, host), c))

(***************************************************************************)
(* PacParser and PacFile.                                                  *)
(***************************************************************************)
EngineIds == {"e1", "e2"}
NoScript == "none"

\* no PacParser under this name
NoEngine ==
    [alive |-> FALSE, pac |-> Undefined, handles |-> 0, loaded |-> NoScript,
     cache |-> EmptyCache, runs |-> 0]

\* PacParser::new: a context of its own, the host functions registered, an
\* empty RegexCache captured by shExpMatch
NewEngine == [NoEngine EXCEPT !.alive = TRUE]

Url(host) == [host |-> host]
Urls == { Url(Some(Localhost)), Url(Some(V6Host)), Url(Some(NxHost)), Url(None) }

Outcome(res, eng) == [res |-> res, eng |-> eng, panicked |-> res.tag = "Panic"]

\* find_proxy once the driver has run: a thrown error becomes JsError, a
\* value that is no string InvalidPacReturn, a string is decoded
Returned(run, after) ==
    CASE run.res.tag = "Panic" -> Outcome(run.res, after)
      [] run.res.tag = "Err" -> Outcome(JsError(run.res.msg), after)
      [] OTHER ->
            IF run.res.val.t # "string"
            THEN Outcome(Err("InvalidPacReturn", ""), after)
            ELSE Outcome(Decode(run.res.val.s), after)

\* the engine after a run of the driver
AfterRun(eng, run) == [eng EXCEPT !.cache = run.cache, !.runs = @ + 1]

\* the call of the driver, and what find_proxy makes of it
Called(eng, run) == Returned(run, AfterRun(eng, run))

\* find_proxy from the lookup of `pac` on
Evaluate(eng, host) ==
    IF eng.pac.t # "function"
    THEN Outcome(Panic("pac should be callable"), eng)
    ELSE Called(eng, RunDriver(ScriptOf(eng.pac.script), eng.cache, host))

\* a slip: the host is asked for only after the driver ran
HostChecked(url, out) ==
    IF ~url.host.some THEN Outcome(Err("NoHost", ""), out.eng) ELSE out

FindProxyHostLate(eng, url) ==
    HostChecked(url, Evaluate(eng, IF url.host.some THEN url.host.val ELSE <<>>))

\* PacFile::find_proxy
FindProxyOutcome(eng, url) ==
    IF ~url.host.some
    THEN Outcome(Err("NoHost", ""), eng)
    ELSE Evaluate(eng, url.host.val)

Op(op, e, arg, script, res) ==
    [op |-> op, e |-> e, arg |-> arg, script |-> script, res |-> res]

\* a slip: one engine per process, as with a shared native interpreter
NewSingleton(e) ==
    /\ ~crashed
    /\ ~engines[e].alive
    /\ IF \E o \in EngineIds : engines[o].alive
       THEN /\ last' = Op("new", e, <<>>, NoScript, Err("InUse", ""))
            /\ UNCHANGED engines
       ELSE /\ engines' = [engines EXCEPT ![e] = NewEngine]
            /\ last' = Op("new", e, <<>>, NoScript, Ok(<<>>))
    /\ UNCHANGED <<crashed, decodeVars, callVars, cacheVars>>

\* PacParser::new
new(e) ==
    /\ ~crashed
    /\ ~engines[e].alive
    /\ engines' = [engines EXCEPT ![e] = NewEngine]
    /\ last' = Op("new", e, <<>>, NoScript, Ok(<<>>))
    /\ UNCHANGED <<crashed, decodeVars, callVars, cacheVars>>

\* the PacParser goes out of scope; no PacFile borrows it any more
DropEngine(e) ==
    /\ ~crashed
    /\ engines[e].alive
    /\ engines[e].handles = 0
    /\ engines' = [engines EXCEPT ![e] = NoEngine]
    /\ last' = Op("drop_engine", e, <<>>, NoScript, Ok(<<>>))
    /\ UNCHANGED <<crashed, decodeVars, callVars, cacheVars>>

\* PacParser::load: `&mut self` is borrowed for as long as the PacFile lives
load(e, id) ==
    /\ ~crashed
    /\ engines[e].alive
    /\ engines[e].handles = 0
    /\ IF ~ScriptOf(id).compiles
       THEN /\ last' = Op("load", e, id, NoScript, JsError("SyntaxError"))
            /\ UNCHANGED engines
       ELSE /\ engines' = [engines EXCEPT ![e].pac = Fn(id),
                                          ![e].handles = @ + 1,
                                          ![e].loaded = id]
            /\ last' = Op("load", e, id, NoScript, Ok(<<>>))
    /\ UNCHANGED <<crashed, decodeVars, callVars, cacheVars>>

\* find_proxy returns, or a panic unwinds out of it
Finish(e, url, out) ==
    /\ engines' = [engines EXCEPT ![e] = out.eng]
    /\ crashed' = out.panicked
    /\ last' = Op("find_proxy", e, url,
                  IF engines[e].pac.t = "function"
                  THEN engines[e].pac.script ELSE NoScript,
                  out.res)

\* PacFile::find_proxy
find_proxy(e, url) ==
    /\ ~crashed
    /\ engines[e].alive
    /\ engines[e].handles = 1
    /\ url.host.some => engines[e].runs < MaxRuns
    /\ Finish(e, url, FindProxyOutcome(engines[e], url))
    /\ UNCHANGED <<decodeVars, callVars, cacheVars>>

\* a slip: the PacFile is let go without erasing the driver
DropFileKeepingPac(e) ==
    /\ ~crashed
    /\ engines[e].alive
    /\ engines[e].handles = 1
    /\ engines' = [engines EXCEPT ![e].handles = 0, ![e].loaded = NoScript]
    /\ last' = Op("drop_file", e, <<>>, NoScript, Ok(<<>>))
    /\ UNCHANGED <<crashed, decodeVars, callVars, cacheVars>>

\* impl Drop for PacFile: `pac = undefined;`
drop(e) ==
    /\ ~crashed
    /\ engines[e].alive
    /\ engines[e].handles = 1
    /\ engines' = [engines EXCEPT ![e].pac = Undefined,
                                  ![e].handles = 0,
                                  ![e].loaded = NoScript]
    /\ last' = Op("drop_file", e, <<>>, NoScript, Ok(<<>>))
    /\ UNCHANGED <<crashed, decodeVars, callVars, cacheVars>>

(***************************************************************************)
(* The decoder on its own: the returned string is drawn from bounded       *)
(* sets, find_proxy decodes it.                                            *)
(***************************************************************************)
BOGUS == <<"B", "O", "G", "U", "S">>

Heads == {DIRECT, PROXY, SOCKS, HTTP, HTTPS, SOCKS4, SOCKS5, BOGUS}
Rests == { <<>>,
           <<" ", "h", ":", "1">>,
           <<" ", "h">>,
           <<"h", ":", "1", ":", "2">> }
Pads == { <<>>, <<" ">> }

Segments ==
    { p \o h \o r \o p : p \in Pads, h \in Heads, r \in Rests } \cup { <<>> }

RECURSIVE Join(_)
Join(segs) ==
    IF Len(segs) = 1 THEN segs[1]
    ELSE segs[1] \o <<";">> \o Join(Tail(segs))

ReturnedTexts ==
    { Join(segs) : segs \in UNION { [1..n -> Segments] : n \in 1..MaxSegs } }


\* the variables a specification does not use stay as they are here
DecodeIdle == ret = <<>> /\ result = NoResult
CallIdle == call = NoCall /\ callResult = NoResult
CacheIdle == cache = EmptyCache /\ path = "none" /\ ncalls = 0
HostIdle == engines = [e \in EngineIds |-> NoEngine] /\ crashed = FALSE /\ last = NoOp

InitDecode ==
    /\ ret \in ReturnedTexts
    /\ result = NoResult
    /\ CallIdle
    /\ CacheIdle
    /\ HostIdle

FindProxyDecode ==
    /\ result = NoResult
    /\ result' = Decode(ret)
    /\ UNCHANGED <<ret, callVars, cacheVars, hostVars>>

NextDecode == FindProxyDecode

SpecDecode == InitDecode /\ [][NextDecode]_vars

(***************************************************************************)
(* The decoder's grammar, stated on the text alone (spec 4.4), for the     *)
(* properties below.                                                       *)
(***************************************************************************)
Parts == Split(ret, ";")

HasColon(s) == \E i \in 1..Len(s) : s[i] = ":"

BeginsWithDirect(seg) == StartsWith(Trim(seg), DIRECT)
ExactlyDirect(seg) == Trim(seg) = DIRECT
SomeTokenPrefixes(seg) == \E i \in 1..Len(types) : StartsWith(Trim(seg), types[i])

\* a segment the grammar accepts
WellFormed(seg) ==
    \/ ExactlyDirect(seg)
    \/ ~BeginsWithDirect(seg) /\ SomeTokenPrefixes(seg) /\ HasColon(seg)

\* segment i is the one decoding is at: every segment before it is accepted
Reached(i) == \A j \in 1..(i - 1) : WellFormed(Parts[j])
AllWellFormed == \A i \in 1..Len(Parts) : WellFormed(Parts[i])

TokenOf(ty) ==
    CASE ty = "Proxy"  -> PROXY
      [] ty = "Socks"  -> SOCKS
      [] ty = "Http"   -> HTTP
      [] ty = "Https"  -> HTTPS
      [] ty = "Socks4" -> SOCKS4
      [] ty = "Socks5" -> SOCKS5

\* entry e reads segment seg as <token of e.ty> <host> ':' <port>, the host
\* being the text before the first colon of what follows the token
ReadsAs(e, seg) ==
    /\ e.kind = "Proxied"
    /\ e.ty \in {"Proxy", "Socks", "Http", "Https", "Socks4", "Socks5"}
    /\ StartsWith(Trim(seg), TokenOf(e.ty))
    /\ ~HasColon(e.host)
    /\ Trim(SubSeq(Trim(seg), Len(TokenOf(e.ty)) + 1, Len(Trim(seg))))
         = e.host \o <<":">> \o e.port

Decoded == result # NoResult

\* C1: a segment that begins with SOCKS4, SOCKS5 or HTTPS decodes to that
\* type, never to the shorter SOCKS or HTTP; "SOCKS5 h:1" decodes to
\* [Proxied{SOCKS5, "h", "1"}].
C1_LongestTokenFirst ==
    Decoded /\ result.tag = "Ok" =>
        /\ \A i \in 1..Len(Parts) :
              /\ StartsWith(Trim(Parts[i]), SOCKS4) => result.val[i].ty = "Socks4"
              /\ StartsWith(Trim(Parts[i]), SOCKS5) => result.val[i].ty = "Socks5"
              /\ StartsWith(Trim(Parts[i]), HTTPS) => result.val[i].ty = "Https"
        /\ ret = SOCKS5 \o <<" ", "h", ":", "1">> =>
              result.val = <<Proxied("Socks5", <<"h">>, <<"1">>)>>

\* C2: a segment DIRECT followed by non-whitespace text makes decoding
\* return the error MalformedProxyEntry; a segment that is DIRECT after
\* trimming yields Direct.
C2_DirectTrailingIsError ==
    Decoded =>
        \A i \in 1..Len(Parts) :
            Reached(i) /\ BeginsWithDirect(Parts[i]) =>
                IF ExactlyDirect(Parts[i])
                THEN result.tag = "Ok" => result.val[i] = Direct
                ELSE result.tag = "Err" /\ result.err = "MalformedProxyEntry"

\* C4: on success the list holds one entry per segment, in the order of the
\* segments, duplicates kept; when a segment is malformed the call returns
\* the error of the first malformed segment.
C4_OneEntryPerSegmentOrFirstError ==
    Decoded =>
        IF AllWellFormed
        THEN /\ result.tag = "Ok"
             /\ Len(result.val) = Len(Parts)
             /\ \A i \in 1..Len(Parts) :
                   IF ExactlyDirect(Parts[i])
                   THEN result.val[i] = Direct
                   ELSE result.val[i].kind = "Proxied"
                        /\ StartsWith(Trim(Parts[i]), TokenOf(result.val[i].ty))
             /\ ret = PROXY \o <<" ", "h", ":", "1", ";", " ">> \o DIRECT \o <<" ">>
                   => result.val = <<Proxied("Proxy", <<"h">>, <<"1">>), Direct>>
        ELSE /\ result.tag = "Err"
             /\ result.err = "MalformedProxyEntry"

\* C5: a segment that does not begin with DIRECT fails with "No type
\* matched" when no token prefixes it, with "No colon in entry" when a token
\* does but no colon follows; otherwise host is the text between the token
\* and the first colon and port everything after that colon.
C5_TypedSegment ==
    Decoded =>
        \A i \in 1..Len(Parts) :
            Reached(i) /\ ~BeginsWithDirect(Parts[i]) =>
                /\ ~SomeTokenPrefixes(Parts[i]) =>
                      result = Err("MalformedProxyEntry", "No type matched")
                /\ SomeTokenPrefixes(Parts[i]) /\ ~HasColon(Parts[i]) =>
                      result = Err("MalformedProxyEntry", "No colon in entry")
                /\ SomeTokenPrefixes(Parts[i]) /\ HasColon(Parts[i]) =>
                      /\ result.tag = "Ok" => ReadsAs(result.val[i], Parts[i])
                      /\ AllWellFormed => result.tag = "Ok"

\* C5 witnesses: a port that itself holds a colon, after an entry was decoded
C5_Witness ==
    /\ Decoded
    /\ result.tag = "Ok"
    /\ \E i \in 1..Len(result.val) :
          /\ result.val[i].kind = "Proxied"
          /\ HasColon(result.val[i].port)
          /\ result.val[i].host = <<"h">>

(***************************************************************************)
(* isInNet on its own: a script calls it once with arguments drawn from    *)
(* the sets below.                                                         *)
(***************************************************************************)
NetTargets ==
    { FormatIpv4(o) : o \in { <<127, 0, 0, 1>>, <<127, 255, 255, 255>>,
                              <<128, 0, 0, 0>>, <<10, 1, 2, 3>>, <<10, 9, 2, 3>>,
                              <<10, 0, 7, 7>>, <<192, 168, 1, 7>> } }
        \cup { Localhost, DualHost, V6Host, NxHost }
NetAddrs ==
    { FormatIpv4(o) : o \in { <<127, 0, 0, 0>>, <<10, 1, 0, 0>>, <<10, 0, 2, 0>>,
                              <<192, 168, 0, 0>> } }
        \cup { BadOctetText }
NetMasks ==
    { FormatIpv4(o) : o \in { <<255, 0, 0, 0>>, <<255, 255, 0, 0>>,
                              <<255, 0, 255, 0>>, <<0, 0, 0, 255>>,
                              <<0, 0, 0, 0>>, <<255, 255, 255, 255>> } }
        \cup { ShortText }

InitNet ==
    /\ call \in { [fn |-> "isInNet", args |-> <<t, n, m>>] :
                     t \in NetTargets, n \in NetAddrs, m \in NetMasks }
    /\ callResult = NoResult
    /\ DecodeIdle
    /\ CacheIdle
    /\ HostIdle

IsInNetCall ==
    /\ callResult = NoResult
    /\ call.fn = "isInNet"
    /\ callResult' = is_in_inet(call.args)
    /\ UNCHANGED <<call, decodeVars, cacheVars, hostVars>>

NextNet == IsInNetCall

SpecNet == InitNet /\ [][NextNet]_vars

\* bit i (1 the most significant, 32 the least) of an address
Bit(o, i) == (o[((i - 1) \div 8) + 1] \div Pow2(7 - ((i - 1) % 8))) % 2
SetBits(o) == Cardinality({ i \in 1..32 : Bit(o, i) = 1 })
TopBitsEqual(a, b, p) == \A i \in 1..p : Bit(a, i) = Bit(b, i)

HasV4(name) ==
    /\ lookup_host(name).tag = "Ok"
    /\ \E i \in 1..Len(lookup_host(name).val) : lookup_host(name).val[i].v = 4
FirstV4(name) ==
    LET ips == lookup_host(name).val
    IN  ips[CHOOSE i \in 1..Len(ips) :
                ips[i].v = 4 /\ \A j \in 1..(i - 1) : ips[j].v # 4].octets

\* C10: isInNet(target, netAddr, netMask) is true iff the top p bits of the
\* target equal the top p bits of netAddr, p being the number of set bits of
\* netMask wherever they are; p is in 0..32, so building the network never
\* fails; a target that is no IPv4 literal is replaced by the first IPv4
\* address of its resolution.
C10_IsInNetByPopCount ==
    /\ callResult # NoResult
    /\ call.fn = "isInNet"
    /\ ParseIpv4(call.args[2]).some
    /\ ParseIpv4(call.args[3]).some
    => LET target == call.args[1]
           net == ParseIpv4(call.args[2]).val
           p == SetBits(ParseIpv4(call.args[3]).val)
       IN  /\ p \in 0..32
           /\ callResult # Panic("prefix should not be a problem")
           /\ ParseIpv4(target).some =>
                 callResult = Ok(TopBitsEqual(ParseIpv4(target).val, net, p))
           /\ ~ParseIpv4(target).some /\ HasV4(target) =>
                 callResult = Ok(TopBitsEqual(FirstV4(target), net, p))

\* C10 witness: a mask whose set bits are not contiguous, and a target in
\* the network its bit count gives
C10_Witness ==
    /\ call.fn = "isInNet"
    /\ call.args[3] = FormatIpv4(<<255, 0, 255, 0>>)
    /\ call.args[1] = FormatIpv4(<<10, 0, 7, 7>>)
    /\ callResult = Ok(TRUE)

(***************************************************************************)
(* shExpMatch on its own: a script calls it repeatedly on one engine.      *)
(***************************************************************************)
MatchStrings == { <<>>, <<"a">>, <<"b", "a">>, <<"a", "a", "b">> }
MatchPatterns ==
    { <<"a">>, <<"a", "*">>, <<".", "*", "a">>, <<"a", ".">>, <<"(", "a">> }

InitCache ==
    /\ cache = EmptyCache
    /\ path = "none"
    /\ ncalls = 0
    /\ CallIdle
    /\ DecodeIdle
    /\ HostIdle

\* the closure registered as shExpMatch, called with two arguments
ShExpMatchCall(str, regex) ==
    /\ ncalls < MaxCalls
    /\ LET m == matches(cache, str, regex) IN
          /\ call' = [fn |-> "shExpMatch", args |-> <<str, regex>>]
          /\ callResult' = m.res
          /\ cache' = m.cache
          /\ path' = m.path
    /\ ncalls' = ncalls + 1
    /\ UNCHANGED <<decodeVars, hostVars>>

NextCache == \E str \in MatchStrings, regex \in MatchPatterns : ShExpMatchCall(str, regex)

SpecCache == InitCache /\ [][NextCache]_vars

\* what compiling "^pattern$" afresh and testing the string gives
FreshAnswer(str, regex) ==
    IF RegexNew(Anchor(regex)).tag = "Ok"
    THEN Ok(IsMatch(RegexNew(Anchor(regex)).val, str))
    ELSE JsError("regex error")

\* every cached matcher is the one its key compiles to
CacheCoherent ==
    \A k \in DOMAIN cache : RegexNew(Anchor(k)) = Ok(cache[k])

\* one shExpMatch call: the answer is the one a fresh compile gives, whichever
\* arm ran; no entry is removed or replaced; only the pattern of the call
\* can be added, and a hit adds nothing
CacheStep ==
    ncalls' = ncalls + 1 =>
        LET str == call'.args[1]
            regex == call'.args[2]
        IN  /\ callResult' = FreshAnswer(str, regex)
            /\ \A k \in DOMAIN cache : k \in DOMAIN cache' /\ cache'[k] = cache[k]
            /\ DOMAIN cache' \subseteq DOMAIN cache \cup {regex}
            /\ regex \in DOMAIN cache => cache' = cache /\ path' = "hit"
            /\ regex \notin DOMAIN cache /\ callResult'.tag = "Ok" =>
                  regex \in DOMAIN cache'
            /\ path' = "hit" => regex \in DOMAIN cache

\* C7: the cache holds one entry per raw pattern text, never removed or
\* replaced; a call with the same string and pattern gives the same answer
\* again (the hit arm answers as the miss arm did) and does not grow the
\* cache.
C7_CacheHitEqualsMiss == []CacheCoherent /\ [][CacheStep]_vars

\* C7 witness: a second call with a cached pattern, answered from the cache
C7_Witness ==
    /\ ncalls >= 2
    /\ path = "hit"
    /\ call.args = << <<"b", "a">>, <<"a">> >>
    /\ callResult = Ok(FALSE)
    /\ Cardinality(DOMAIN cache) = 1

(***************************************************************************)
(* The script host as a whole: engines are created and dropped, scripts    *)
(* loaded, URLs evaluated, PacFiles released.                              *)
(***************************************************************************)
Init ==
    /\ HostIdle
    /\ DecodeIdle
    /\ CallIdle
    /\ CacheIdle

Next ==
    \/ \E e \in EngineIds : new(e)
    \/ \E e \in EngineIds : DropEngine(e)
    \/ \E e \in EngineIds, id \in ScriptIds : load(e, id)
    \/ \E e \in EngineIds, url \in Urls : find_proxy(e, url)
    \/ \E e \in EngineIds : drop(e)

Spec == Init /\ [][Next]_vars

\* the ways the claim lists for a host function to fail inside: the wrong
\* number of arguments, a lookup that fails or has no IPv4 address, an
\* address or mask that does not parse, a pattern that does not compile
Resolves(name) ==
    /\ lookup_host(name).tag = "Ok"
    /\ \E i \in 1..Len(lookup_host(name).val) : lookup_host(name).val[i].v = 4

FailsInside(fn, args) ==
    \/ Len(args) # Arity(fn)
    \/ fn = "dnsResolve" /\ ~Resolves(args[1])
    \/ fn = "isInNet" /\ (~ParseIpv4(args[2]).some \/ ~ParseIpv4(args[3]).some)
    \/ fn = "isInNet" /\ ~ParseIpv4(args[1]).some /\ ~Resolves(args[1])
    \/ fn = "shExpMatch" /\ RegexNew(Anchor(args[2])).tag # "Ok"

\* the last operation was a find_proxy whose script called a host function
\* that failed inside
HostFunctionFailed ==
    /\ last.op = "find_proxy"
    /\ last.arg.host.some
    /\ last.script # NoScript
    /\ ScriptOf(last.script).cond # NoCall
    /\ FailsInside(ScriptOf(last.script).cond.fn,
                   ArgsFor(ScriptOf(last.script), last.arg.host.val))

\* C3: a failure inside a host function ends the find_proxy call with the
\* error JsError; it never panics the process.
C3_HostFailureIsScriptError ==
    HostFunctionFailed =>
        /\ ~crashed
        /\ last.res.tag = "Err"
        /\ last.res.err = "JsError"

\* C6: find_proxy on a URL without a host returns NoHost and leaves every
\* engine as it was: the driver is not run, no host function is called, the
\* wildcard cache is not touched.
C6_NoHostBeforeDriver ==
    [][last'.op = "find_proxy" /\ ~last'.arg.host.some =>
          /\ last'.res = Err("NoHost", "")
          /\ engines' = engines
          /\ crashed' = crashed]_vars

\* C6 witness: NoHost from an engine whose driver has run before and whose
\* cache holds a pattern
C6_Witness ==
    /\ last.op = "find_proxy"
    /\ ~last.arg.host.some
    /\ last.res = Err("NoHost", "")
    /\ engines[last.e].runs >= 1
    /\ engines[last.e].cache # EmptyCache

LiveEngines == { e \in EngineIds : engines[e].alive }

\* C8, as claimed: at most one Engine is live at a time, a create() during
\* the life of another fails with InUse.
C8_AtMostOneEngine ==
    /\ Cardinality(LiveEngines) <= 1
    /\ last.op = "new" /\ LiveEngines \ {last.e} # {} =>
          last.res = Err("InUse", "")

\* C8, amended: create() always succeeds, also while other Engines are live;
\* the new Engine has a driver binding and a wildcard cache of its own, both
\* empty, and the other Engines are left as they were.
C8_CreateAlwaysSucceeds ==
    [][last'.op = "new" =>
          /\ last'.res.tag = "Ok"
          /\ engines'[last'.e].alive
          /\ engines'[last'.e].cache = EmptyCache
          /\ engines'[last'.e].pac = Undefined
          /\ \A o \in EngineIds \ {last'.e} : engines'[o] = engines[o]]_vars

\* C8 witness: an Engine created while another, with a pattern cached and a
\* script loaded, is live
C8_Witness ==
    /\ last.op = "new"
    /\ last.res.tag = "Ok"
    /\ \E o \in LiveEngines \ {last.e} :
          engines[o].cache # EmptyCache /\ engines[o].handles = 1
    /\ engines[last.e].alive
    /\ engines[last.e].cache = EmptyCache

\* at most one PacFile per engine, and while it is out `pac` is the driver of
\* the script it was loaded from
OneHandle ==
    \A e \in EngineIds :
        /\ engines[e].handles <= 1
        /\ engines[e].handles = 1 => engines[e].pac = Fn(engines[e].loaded)

\* a release leaves `pac` undefined and hands no error back; a load installs
\* the driver of its script; find_proxy runs the script loaded last
HandleStep ==
    /\ last'.op = "drop_file" =>
          /\ engines'[last'.e].pac = Undefined
          /\ engines'[last'.e].handles = 0
          /\ last'.res.tag = "Ok"
    /\ last'.op = "load" /\ last'.res.tag = "Ok" =>
          /\ engines[last'.e].handles = 0
          /\ engines'[last'.e].pac = Fn(last'.arg)
    /\ last'.op = "find_proxy" /\ last'.arg.host.some =>
          last'.script = engines[last'.e].loaded

\* C9: at most one LoadedScript handle is out at a time; releasing it erases
\* the binding `pac` and returns no error; a load after a release installs a
\* fresh driver, so that find_proxy evaluates the script loaded last.
C9_HandleLifecycle == []OneHandle /\ [][HandleStep]_vars

\* C9 witness: find_proxy runs the script of a second load, on an engine
\* that ran the driver of an earlier script (its pattern is still cached)
C9_Witness ==
    /\ last.op = "find_proxy"
    /\ last.script = "simple"
    /\ last.res.tag = "Ok"
    /\ engines[last.e].cache # EmptyCache

====
